---- MODULE Spec2Model ----
(***************************************************************************)
(* Meeting scheduler: the availability pipeline (service/availability) and *)
(* the lock-guarded booking commit protocol (createBooking,                *)
(* rescheduleBooking, cancelBooking).                                      *)
(*                                                                         *)
(* Time is an integer number of minutes since the Unix epoch, in UTC.      *)
(* Day 0 is Thursday 1970-01-01.  A time zone is a fixed offset in minutes *)
(* east of UTC (daylight-saving transitions are not modelled).  The server *)
(* process runs in UTC (node:22-alpine sets no TZ).                        *)
(*                                                                         *)
(* Every await of a handler that touches the database or Redis is one      *)
(* step; the steps of different requests interleave freely.  The clock     *)
(* "now" advances by its own action, and a Redis key set with PX may       *)
(* expire between any two steps.                                           *)
(***************************************************************************)
EXTENDS Integers, Sequences, FiniteSets, TLC

VARIABLES
    now,                \* the clock (DateTime.now(), new Date())
    organizerSettings,  \* organizer_settings table: userId -> row or NoSettings
    workingHours,       \* working_hours table: sequence of rows
    blackoutDates,      \* blackout_dates table: set of rows
    bookings,           \* bookings table: sequence of rows, id = position
    locks,              \* Redis keys "lock:booking:...": set of [key, owner]
    pc,                 \* per request: the await it is suspended at
    req,                \* per request: the validated input data, while it runs
    result              \* per request: what the handler returned or threw

vars == <<now, organizerSettings, workingHours, blackoutDates, bookings,
          locks, pc, req, result>>

---------------------------------------------------------------------------
(* Bounds of the model *)

MaxBookings == 2

\* the requests in flight at a time; a finished one may be followed by another
Attempts == {1, 2}

---------------------------------------------------------------------------
(* Time arithmetic (luxon DateTime with a fixed-offset zone) *)

MinutesPerHour == 60
MinutesPerDay == 24 * MinutesPerHour
MillisPerMinute == 60000

At(day, hour, minute) == day * MinutesPerDay + hour * MinutesPerHour + minute

\* DateTime.setZone(zone).startOf("day"), as a UTC instant
StartOfDay(t, offset) ==
    ((t + offset) \div MinutesPerDay) * MinutesPerDay - offset

\* luxon weekday (1 = Monday .. 7 = Sunday) of the local day starting at dayStartUTC
Weekday(dayStartUTC, offset) ==
    ((((dayStartUTC + offset) \div MinutesPerDay) + 3) % 7) + 1

\* Date.setHours(23, 59, 59, 999) in the server's zone (UTC), to the minute
EndOfServerDay(t) == (t \div MinutesPerDay) * MinutesPerDay + (MinutesPerDay - 1)

---------------------------------------------------------------------------
(* Tables *)

NoSettings == [missing |-> TRUE]
NullBooking == [id |-> 0]

userTable ==
    { [id |-> "o1", username |-> "alice", email |-> "alice@example.com"],
      [id |-> "o2", username |-> "bob", email |-> "bob@example.com"],
      [id |-> "o3", username |-> "eve", email |-> "eve@example.com"] }

\* service/user getUserByUsername: the rows with that username
getUserByUsername(username) == {u \in userTable : u.username = username}

\* service/organizer-settings getOrganizerSettings
getOrganizerSettings(userId) ==
    IF userId \in DOMAIN organizerSettings
    THEN organizerSettings[userId]
    ELSE NoSettings

\* service/working-hours getWorkingHoursByUserId
getWorkingHoursByUserId(userId) ==
    LET Keep(wh) == wh.userId = userId /\ ~wh.deleted
    IN  SelectSeq(workingHours, Keep)

\* service/blackout-dates getBlackoutDatesByUserIdAndDateRange
getBlackoutDatesByUserIdAndDateRange(userId, startDate, endDate) ==
    {b \in blackoutDates :
        /\ b.userId = userId
        /\ b.date >= startDate
        /\ b.date <= EndOfServerDay(endDate)
        /\ ~b.deleted}

\* service/bookings getBookingById
getBookingById(id) ==
    IF id \in 1..Len(bookings) /\ ~bookings[id].deleted
    THEN bookings[id]
    ELSE NullBooking

\* the range query without the isNull(deletedAt) condition
getBookingsIncludingDeleted(organizerId, startDateUTC, endDateUTC) ==
    {b \in {bookings[i] : i \in 1..Len(bookings)} :
        /\ b.organizerId = organizerId
        /\ b.startTime >= startDateUTC
        /\ b.startTime <= EndOfServerDay(endDateUTC)}

\* service/bookings getBookingsByOrganizerInDateRange
getBookingsByOrganizerInDateRange(organizerId, startDateUTC, endDateUTC) ==
    {b \in {bookings[i] : i \in 1..Len(bookings)} :
        /\ b.organizerId = organizerId
        /\ b.startTime >= startDateUTC
        /\ b.startTime <= EndOfServerDay(endDateUTC)
        /\ ~b.deleted}

\* a DELETE ... RETURNING in the place of the SELECT: the rows marked deleted
bookingsAfterDeleteReturning(rows) ==
    [i \in 1..Len(rows) |-> [rows[i] EXCEPT !.deleted = TRUE]]

\* the bookings table after db.select().from(bookingsTable): a query reads
\* the rows and leaves them as they were
bookingsAfterSelect(rows) == rows

\* service/bookings createBooking: one INSERT ... RETURNING
createBookingService(rows, booking, outcome) ==
    IF outcome = "ok"
    THEN Append(rows, [id |-> Len(rows) + 1,
                       organizerId |-> booking.organizerId,
                       attendantEmail |-> booking.attendantEmail,
                       startTime |-> booking.startTime,
                       endTime |-> booking.endTime,
                       deleted |-> FALSE])
    ELSE rows

\* the row written although the statement is reported as failed
updateBookingNotAtomic(rows, id, updates, outcome) ==
    IF id \in 1..Len(rows)
    THEN [rows EXCEPT ![id].startTime = updates.startTime,
                      ![id].endTime = updates.endTime]
    ELSE rows

\* the new time range stored as a new row, the old row left as it was
updateBookingByInsert(rows, id, updates, outcome) ==
    IF outcome = "ok" /\ id \in 1..Len(rows)
    THEN Append(rows, [rows[id] EXCEPT !.id = Len(rows) + 1,
                                       !.startTime = updates.startTime,
                                       !.endTime = updates.endTime])
    ELSE rows

\* service/bookings updateBooking: one UPDATE ... WHERE id = ... RETURNING
updateBookingService(rows, id, updates, outcome) ==
    IF outcome = "ok" /\ id \in 1..Len(rows)
    THEN [rows EXCEPT ![id].startTime = updates.startTime,
                      ![id].endTime = updates.endTime]
    ELSE rows

\* service/bookings deleteBooking: UPDATE ... SET deletedAt WHERE id = ...
deleteBooking(rows, id) ==
    IF id \in 1..Len(rows)
    THEN [rows EXCEPT ![id].deleted = TRUE]
    ELSE rows

ActiveBookings == {b \in {bookings[i] : i \in 1..Len(bookings)} : ~b.deleted}

---------------------------------------------------------------------------
(* The availability pipeline *)

\* the window closed at the end of the day maxBookingAdvance days ahead
getTimeWindowThroughLastDay(settings) ==
    LET startInTZ == StartOfDay(now, settings.workingTimezone)
        endInTZ == startInTZ + (settings.maxBookingAdvance + 1) * MinutesPerDay
    IN  [startInTZ |-> startInTZ, endInTZ |-> endInTZ,
         startUTC |-> startInTZ, endUTC |-> endInTZ]

getTimeWindowInTimezone(settings) ==
    LET startInTZ == StartOfDay(now, settings.workingTimezone)
        endInTZ == StartOfDay(startInTZ + settings.maxBookingAdvance * MinutesPerDay,
                              settings.workingTimezone)
    IN  [startInTZ |-> startInTZ, endInTZ |-> endInTZ,
         startUTC |-> startInTZ, endUTC |-> endInTZ]

\* slots emitted while the slot start lies before the end of the block, the
\* last one reaching past it
SlotsOfBlockUntilEnd(slotStart, workEnd, duration) ==
    LET span == IF workEnd > slotStart THEN workEnd - slotStart ELSE 0
        count == (span + duration - 1) \div duration
    IN  [k \in 1..count |->
            [startTimeUTC |-> slotStart + (k - 1) * duration,
             endTimeUTC |-> slotStart + k * duration,
             duration |-> duration]]

RECURSIVE SlotsOfBlock(_, _, _)
\* the inner while loop: discrete slots within one working-hour block
SlotsOfBlock(slotStart, workEnd, duration) ==
    IF slotStart + duration <= workEnd
    THEN <<[startTimeUTC |-> slotStart,
            endTimeUTC |-> slotStart + duration,
            duration |-> duration]>>
         \o SlotsOfBlock(slotStart + duration, workEnd, duration)
    ELSE <<>>

RECURSIVE SlotsOfDayDeduplicated(_, _, _)
\* the blocks of a day expanded into one set of slots: a slot an earlier block
\* has emitted is not emitted again
SlotsOfDayDeduplicated(dayWorkingHours, currentDay, duration) ==
    IF dayWorkingHours = <<>>
    THEN <<>>
    ELSE LET wh == Head(dayWorkingHours)
             first == SlotsOfBlock(
                          currentDay + wh.startTime.hour * MinutesPerHour
                                     + wh.startTime.minute,
                          currentDay + wh.endTime.hour * MinutesPerHour
                                     + wh.endTime.minute,
                          duration)
             rest == SlotsOfDayDeduplicated(Tail(dayWorkingHours), currentDay,
                                            duration)
             IsNew(slot) == \A i \in 1..Len(first) : first[i] # slot
         IN  first \o SelectSeq(rest, IsNew)

RECURSIVE SlotsOfDay(_, _, _)
\* the for loop over the working-hour blocks of one day
SlotsOfDay(dayWorkingHours, currentDay, duration) ==
    IF dayWorkingHours = <<>>
    THEN <<>>
    ELSE LET wh == Head(dayWorkingHours)
             workStart == currentDay + wh.startTime.hour * MinutesPerHour
                                     + wh.startTime.minute
             workEnd == currentDay + wh.endTime.hour * MinutesPerHour
                                   + wh.endTime.minute
         IN  SlotsOfBlock(workStart, workEnd, duration)
             \o SlotsOfDay(Tail(dayWorkingHours), currentDay, duration)

RECURSIVE generateCandidateSlotsUTC(_, _, _, _)
generateCandidateSlotsUTC(windowStartInTZ, windowEndInTZ, hours, settings) ==
    IF windowStartInTZ < windowEndInTZ
    THEN LET weekday == Weekday(windowStartInTZ, settings.workingTimezone)
             dayOfWeek == IF weekday = 7 THEN "0" ELSE ToString(weekday)
             Matches(wh) == wh.dayOfWeek = dayOfWeek /\ wh.isActive
             dayWorkingHours == SelectSeq(hours, Matches)
         IN  SlotsOfDay(dayWorkingHours, windowStartInTZ,
                        settings.defaultMeetingDuration)
             \o generateCandidateSlotsUTC(windowStartInTZ + MinutesPerDay,
                                          windowEndInTZ, hours, settings)
    ELSE <<>>

\* the days compared as UTC days, the organizer's zone left out
filterSlotsByUTCDay(candidateSlots, blackouts, timezone) ==
    LET Keep(slot) ==
            ~\E blackout \in blackouts :
                StartOfDay(slot.startTimeUTC, 0) = StartOfDay(blackout.date, 0)
    IN  SelectSeq(candidateSlots, Keep)

filterSlotsByBlackoutDates(candidateSlots, blackouts, timezone) ==
    LET Keep(slot) ==
            LET slotDay == StartOfDay(slot.startTimeUTC, timezone)
            IN  ~\E blackout \in blackouts :
                    slotDay = StartOfDay(blackout.date, timezone)
    IN  SelectSeq(candidateSlots, Keep)

applyBufferTimes(existing, settings) ==
    { [bufferedStartUTC |-> b.startTime - settings.preBookingBuffer,
       bufferedEndUTC |-> b.endTime + settings.postBookingBuffer,
       originalStartUTC |-> b.startTime,
       originalEndUTC |-> b.endTime] : b \in existing }

\* the comparison with the boundaries included: touching counts as colliding
isSlotTouchingBooking(slot, booking) ==
    slot.startTimeUTC <= booking.bufferedEndUTC
        /\ slot.endTimeUTC >= booking.bufferedStartUTC

isSlotCollidingWithBooking(slot, booking) ==
    slot.startTimeUTC < booking.bufferedEndUTC
        /\ slot.endTimeUTC > booking.bufferedStartUTC

filterCollidingSlots(candidateSlots, bufferedBookings) ==
    LET Keep(slot) ==
            ~\E booking \in bufferedBookings :
                isSlotCollidingWithBooking(slot, booking)
    IN  SelectSeq(candidateSlots, Keep)

\* the notice rule with the boundary instant refused
applyBusinessRulesStrictNotice(availableSlots, settings) ==
    LET Keep(slot) ==
            /\ slot.endTimeUTC > now
            /\ slot.startTimeUTC > now + settings.minBookingNotice * MinutesPerHour
    IN  SelectSeq(availableSlots, Keep)

applyBusinessRulesToSlots(availableSlots, settings) ==
    LET nowUTC == now
        minNoticeUTC == nowUTC + settings.minBookingNotice * MinutesPerHour
        Keep(slot) ==
            IF slot.endTimeUTC <= nowUTC THEN FALSE
            ELSE IF slot.startTimeUTC < minNoticeUTC THEN FALSE
            ELSE TRUE
    IN  SelectSeq(availableSlots, Keep)

\* the slots left in the order the generator emitted them
slotsInGeneratedOrder(slots) == slots

\* .sort((a, b) => a.startTime.getTime() - b.startTime.getTime())
sortByStartTime(slots) ==
    LET Earlier(a, b) == a.startTime < b.startTime
    IN  SortSeq(slots, Earlier)

\* the slots calculateAvailableSlots returns when the settings row exists
calculateAvailableSlots(organizerId) ==
    LET settings == getOrganizerSettings(organizerId)
        window == getTimeWindowInTimezone(settings)
        hours == getWorkingHoursByUserId(organizerId)
        blackouts == getBlackoutDatesByUserIdAndDateRange(
                         organizerId, window.startUTC, window.endUTC)
        existingBookings == getBookingsByOrganizerInDateRange(
                                organizerId, window.startUTC, window.endUTC)
        candidateSlots == generateCandidateSlotsUTC(
                              window.startInTZ, window.endInTZ, hours, settings)
        afterBlackout == filterSlotsByBlackoutDates(
                             candidateSlots, blackouts, settings.workingTimezone)
        bufferedBookings == applyBufferTimes(existingBookings, settings)
        availableSlots == filterCollidingSlots(afterBlackout, bufferedBookings)
        finalSlots == applyBusinessRulesToSlots(availableSlots, settings)
    IN  sortByStartTime([i \in 1..Len(finalSlots) |->
                            [startTime |-> finalSlots[i].startTimeUTC,
                             endTime |-> finalSlots[i].endTimeUTC,
                             duration |-> finalSlots[i].duration]])

\* every read issued in one Promise.all, the settings row among them
QueriesIssuedTogether(settings) ==
    {"organizer_settings", "working_hours", "blackout_dates", "bookings"}

\* the tables calculateAvailableSlots queries: the settings row first, and
\* after the check that it exists the three reads of the Promise.all
QueriesIssued(settings) ==
    IF settings = NoSettings
    THEN {"organizer_settings"}
    ELSE {"organizer_settings", "working_hours", "blackout_dates", "bookings"}

\* one call of calculateAvailableSlots: what it throws or returns, and the
\* tables it has queried by then
calculateAvailableSlotsCall(organizerId) ==
    LET settings == getOrganizerSettings(organizerId)
    IN  IF settings = NoSettings
        THEN [thrown |-> "settings_notfound", slots |-> <<>>,
              settings |-> NoSettings, queries |-> QueriesIssued(settings)]
        ELSE [thrown |-> "none", slots |-> calculateAvailableSlots(organizerId),
              settings |-> settings, queries |-> QueriesIssued(settings)]

---------------------------------------------------------------------------
(* Redis: the lock keys *)

LOCK_PREFIX == "lock:booking"

\* const LOCK_PREFIX of the rescheduleBooking module: the same literal, so
\* the keys of both handlers are built by LockKeyOf
rescheduleBooking_LOCK_PREFIX == "lock:booking"

\* const LOCK_EXPIRY of the createBooking module, in milliseconds
createBooking_LOCK_EXPIRY == 100000

\* const LOCK_EXPIRY of the rescheduleBooking module, in milliseconds
rescheduleBooking_LOCK_EXPIRY == 10000

\* `${LOCK_PREFIX}:${organizerId}:${startTimestamp}`
LockKeyOf(organizerId, startTime) ==
    <<LOCK_PREFIX, organizerId, startTime * MillisPerMinute>>

KeyIsSet(key) == \E l \in locks : l.key = key

\* redis.set(key, "locked", {NX: true, PX: px}): the keys afterwards.
\* The value stored is the string "locked"; owner records which request set
\* it and is read by no step; px is the expiry the key was set with.
redisSetNX(held, key, owner, px) ==
    IF \E l \in held : l.key = key
    THEN held
    ELSE held \cup {[key |-> key, owner |-> owner, px |-> px]}

\* a lock store in which any key that is set refuses every acquisition
SetRefusedByAnyKey(held, key) == held = {}

\* a plain SET, without NX, always replies "OK"
SetReplyAlwaysOK(held, key) == TRUE

\* the reply of that redis.set: truthy ("OK") exactly when the key was absent
SetNXReply(held, key) == ~\E l \in held : l.key = key

\* redis.del(key)
redisDel(held, key) == {l \in held : l.key # key}

\* the early return placed inside the try block, so that the finally runs
RefusedAcquireRunsFinally(held, key) == redisDel(held, key)

\* the keys after a request whose SET NX was refused has returned: the
\* return precedes the try block, so its finally does not run
LocksAfterRefusedAcquire(held, key) == held

\* the release placed on the success path only
ReleaseOnSuccessOnly(held, key, outcome) ==
    IF outcome = "success" THEN redisDel(held, key) ELSE held

\* finally { await redis.del(lockKey) }: the keys after the try block was
\* left with the given result
FinallyRelease(held, key, outcome) == redisDel(held, key)

---------------------------------------------------------------------------
(* The requests *)

Slot1 == [startTime |-> At(0, 22, 0), endTime |-> At(0, 23, 0)]
Slot2 == [startTime |-> At(1, 0, 0), endTime |-> At(1, 1, 0)]

\* the time ranges clients ask for: two slots of the template, a range that
\* starts on a slot and ends later, and an empty range
TimeRanges ==
    { Slot1, Slot2,
      [startTime |-> At(1, 0, 0), endTime |-> At(1, 2, 0)],
      [startTime |-> At(1, 0, 0), endTime |-> At(1, 0, 0)] }

ClockValues == { At(0, 20, 0), At(1, 0, 0) }

NoRequest ==
    [kind |-> "none", organizerUsername |-> "", attendantEmail |-> "",
     requestingUsername |-> "", bookingId |-> 0, startTime |-> 0, endTime |-> 0]

\* createBookingSchema; the attendant is bob, who is also a registered user
CreateRequests ==
    { [NoRequest EXCEPT !.kind = "create", !.organizerUsername = "alice",
                        !.attendantEmail = "bob@example.com",
                        !.startTime = r.startTime, !.endTime = r.endTime]
        : r \in TimeRanges }
    \cup
    { [NoRequest EXCEPT !.kind = "create", !.organizerUsername = u,
                        !.attendantEmail = "bob@example.com",
                        !.startTime = Slot2.startTime, !.endTime = Slot2.endTime]
        : u \in {"bob", "carol"} }

\* rescheduleBookingSchema
RescheduleRequests ==
    { [NoRequest EXCEPT !.kind = "reschedule", !.bookingId = id,
                        !.startTime = r.startTime, !.endTime = r.endTime]
        : id \in 1..MaxBookings, r \in TimeRanges }

\* requestingUsername as sent: not sent at all (""), the organizer, the
\* attendant, a registered user who is neither, a name nobody has
RequestingUsernames == {"", "alice", "bob", "eve", "zed"}

\* cancelBookingSchema
CancelRequests ==
    { [NoRequest EXCEPT !.kind = "cancel", !.bookingId = id,
                        !.requestingUsername = u]
        : id \in 1..MaxBookings, u \in RequestingUsernames }

---------------------------------------------------------------------------
(* createBooking, rescheduleBooking: the steps before the lock *)

\* the time-range check left out
RangeNotChecked(startTime, endTime) == TRUE

ValidRange(startTime, endTime) == ~(startTime >= endTime)

\* createBooking lines 38-59: "ok", or the error returned
CreateValidate(r) ==
    IF ~ValidRange(r.startTime, r.endTime) THEN "validation"
    ELSE IF getUserByUsername(r.organizerUsername) = {} THEN "organizer_notfound"
    ELSE LET organizerId == (CHOOSE u \in getUserByUsername(r.organizerUsername) : TRUE).id
         IN  IF getOrganizerSettings(organizerId) = NoSettings THEN "settings_notfound"
             ELSE "ok"

\* the checks of rescheduleBooking without the two comparisons with new Date()
RescheduleValidateNoPastCheck(r) ==
    LET existingBooking == getBookingById(r.bookingId)
    IN  IF existingBooking = NullBooking THEN "booking_notfound"
        ELSE IF ~ValidRange(r.startTime, r.endTime) THEN "validation"
        ELSE IF getOrganizerSettings(existingBooking.organizerId) = NoSettings
             THEN "settings_notfound"
        ELSE "ok"

\* rescheduleBooking lines 78-106: "ok", or the error thrown
RescheduleValidate(r) ==
    LET existingBooking == getBookingById(r.bookingId)
    IN  IF existingBooking = NullBooking THEN "booking_notfound"
        ELSE IF existingBooking.startTime < now THEN "past"
        ELSE IF ~ValidRange(r.startTime, r.endTime) THEN "validation"
        ELSE IF r.startTime < now THEN "past"
        ELSE IF getOrganizerSettings(existingBooking.organizerId) = NoSettings
             THEN "settings_notfound"
        ELSE "ok"

\* cancelBooking lines 17-40: "ok", or the error thrown or returned.  The
\* permission check runs only when a requestingUsername was sent.
CancelValidate(r) ==
    LET booking == getBookingById(r.bookingId)
        requestingUserResult == getUserByUsername(r.requestingUsername)
    IN  IF booking = NullBooking THEN "booking_notfound"
        ELSE IF r.requestingUsername = "" THEN "ok"
        ELSE IF requestingUserResult = {} THEN "requester_notfound"
        ELSE LET user == CHOOSE u \in requestingUserResult : TRUE
                 isOrganizer == user.id = booking.organizerId
                 isAttendant == user.email = booking.attendantEmail
             IN  IF ~isOrganizer /\ ~isAttendant THEN "permission" ELSE "ok"

\* the organizer a request past validation works on
OrganizerIdOf(r) ==
    IF r.kind = "create"
    THEN (CHOOSE u \in getUserByUsername(r.organizerUsername) : TRUE).id
    ELSE bookings[r.bookingId].organizerId

LockKey(a) == LockKeyOf(OrganizerIdOf(req[a]), req[a].startTime)

\* the PX argument of the handler's redis.set
LockExpiryOf(r) ==
    IF r.kind = "create"
    THEN createBooking_LOCK_EXPIRY
    ELSE rescheduleBooking_LOCK_EXPIRY

\* the key of request a is set, and it was a that set it
HoldsLock(a) == \E l \in locks : l.key = LockKey(a) /\ l.owner = a

\* the comparison of the end times left out
isSlotAvailableByStart(slots, startTime, endTime) ==
    \E i \in 1..Len(slots) : slots[i].startTime = startTime

\* the Date objects compared with === themselves, not their getTime():
\* two distinct objects are never identical
isSlotAvailableByIdentity(slots, startTime, endTime) == FALSE

\* slots.some(...): a returned slot with the requested start and end
isSlotAvailable(slots, startTime, endTime) ==
    \E i \in 1..Len(slots) :
        slots[i].startTime = startTime /\ slots[i].endTime = endTime

InFlightCreates == {a \in Attempts : req[a].kind = "create" /\ pc[a] \notin {"idle", "done"}}

---------------------------------------------------------------------------
(* The steps *)

Settings1 ==
    [workingTimezone |-> 0, defaultMeetingDuration |-> 60,
     preBookingBuffer |-> 0, postBookingBuffer |-> 120,
     minBookingNotice |-> 0, maxBookingAdvance |-> 2]

SettingsChoices == {Settings1}

Template ==
    << [userId |-> "o1", dayOfWeek |-> "4", isActive |-> TRUE, deleted |-> FALSE,
        startTime |-> [hour |-> 22, minute |-> 0],
        endTime |-> [hour |-> 23, minute |-> 0]],
       [userId |-> "o1", dayOfWeek |-> "5", isActive |-> TRUE, deleted |-> FALSE,
        startTime |-> [hour |-> 0, minute |-> 0],
        endTime |-> [hour |-> 1, minute |-> 30]],
       [userId |-> "o1", dayOfWeek |-> "6", isActive |-> FALSE, deleted |-> FALSE,
        startTime |-> [hour |-> 0, minute |-> 0],
        endTime |-> [hour |-> 2, minute |-> 0]] >>

Init ==
    /\ now = At(0, 20, 0)
    /\ \E s \in SettingsChoices : organizerSettings = [o \in {"o1"} |-> s]
    /\ workingHours = Template
    /\ blackoutDates = {}
    /\ bookings = <<>>
    /\ locks = {}
    /\ pc = [a \in Attempts |-> "idle"]
    /\ req = [a \in Attempts |-> NoRequest]
    /\ result = [a \in Attempts |-> "none"]

Tables == <<organizerSettings, workingHours, blackoutDates>>

\* a createBooking request arrives and runs up to its first Redis call
CreateStart(a) ==
    /\ pc[a] \in {"idle", "done"}
    /\ Len(bookings) + Cardinality(InFlightCreates) < MaxBookings
    /\ \E r \in CreateRequests :
        LET v == CreateValidate(r)
        IN  /\ req' = [req EXCEPT ![a] = IF v = "ok" THEN r ELSE NoRequest]
            /\ pc' = [pc EXCEPT ![a] = IF v = "ok" THEN "acquire" ELSE "done"]
            /\ result' = [result EXCEPT ![a] = IF v = "ok" THEN "none" ELSE v]
    /\ UNCHANGED <<now, Tables, bookings, locks>>

\* a rescheduleBooking request arrives and runs up to its first Redis call
RescheduleStart(a) ==
    /\ pc[a] \in {"idle", "done"}
    /\ \E r \in RescheduleRequests :
        LET v == RescheduleValidate(r)
        IN  /\ req' = [req EXCEPT ![a] = IF v = "ok" THEN r ELSE NoRequest]
            /\ pc' = [pc EXCEPT ![a] = IF v = "ok" THEN "acquire" ELSE "done"]
            /\ result' = [result EXCEPT ![a] = IF v = "ok" THEN "none" ELSE v]
    /\ UNCHANGED <<now, Tables, bookings, locks>>

\* redis.set(lockKey, "locked", {NX: true, PX: LOCK_EXPIRY}) and the test of its reply
AcquireLock(a) ==
    /\ pc[a] = "acquire"
    /\ LET lockAcquired == SetNXReply(locks, LockKey(a))
       IN  IF lockAcquired
           THEN /\ locks' = redisSetNX(locks, LockKey(a), a, LockExpiryOf(req[a]))
                /\ pc' = [pc EXCEPT ![a] = "revalidate"]
                /\ UNCHANGED <<req, result>>
           ELSE /\ locks' = LocksAfterRefusedAcquire(locks, LockKey(a))
                /\ pc' = [pc EXCEPT ![a] = "done"]
                /\ req' = [req EXCEPT ![a] = NoRequest]
                /\ result' = [result EXCEPT ![a] = "locked"]
    /\ UNCHANGED <<now, Tables, bookings>>

\* calculateAvailableSlots and the search for the requested slot; a failed
\* query throws out of the try block
Revalidate(a) ==
    /\ pc[a] = "revalidate"
    /\ \E queryOk \in BOOLEAN :
        IF ~queryOk
        THEN /\ pc' = [pc EXCEPT ![a] = "release"]
             /\ result' = [result EXCEPT ![a] = "error"]
        ELSE IF isSlotAvailable(calculateAvailableSlots(OrganizerIdOf(req[a])),
                                req[a].startTime, req[a].endTime)
        THEN /\ pc' = [pc EXCEPT ![a] = "persist"]
             /\ UNCHANGED result
        ELSE /\ pc' = [pc EXCEPT ![a] = "release"]
             /\ result' = [result EXCEPT ![a] = "unavailable"]
    /\ bookings' = bookingsAfterSelect(bookings)
    /\ UNCHANGED <<now, Tables, locks, req>>

\* createBookingService / updateBookingService and the test of what it returned
Persist(a) ==
    /\ pc[a] = "persist"
    /\ \E outcome \in {"ok", "null", "throw"} :
        /\ bookings' =
             IF req[a].kind = "create"
             THEN createBookingService(bookings,
                      [organizerId |-> OrganizerIdOf(req[a]),
                       attendantEmail |-> req[a].attendantEmail,
                       startTime |-> req[a].startTime,
                       endTime |-> req[a].endTime], outcome)
             ELSE updateBookingService(bookings, req[a].bookingId,
                      [startTime |-> req[a].startTime,
                       endTime |-> req[a].endTime], outcome)
        /\ result' = [result EXCEPT ![a] = IF outcome = "ok" THEN "success" ELSE "failed"]
    /\ pc' = [pc EXCEPT ![a] = "release"]
    /\ UNCHANGED <<now, Tables, locks, req>>

\* finally { await redis.del(lockKey) }
ReleaseLock(a) ==
    /\ pc[a] = "release"
    /\ locks' = FinallyRelease(locks, LockKey(a), result[a])
    /\ pc' = [pc EXCEPT ![a] = "done"]
    /\ req' = [req EXCEPT ![a] = NoRequest]
    /\ UNCHANGED <<now, Tables, bookings, result>>

\* a cancelBooking request arrives: getBookingById and the permission check
CancelStart(a) ==
    /\ pc[a] \in {"idle", "done"}
    /\ \E r \in CancelRequests :
        LET v == CancelValidate(r)
        IN  /\ req' = [req EXCEPT ![a] = IF v = "ok" THEN r ELSE NoRequest]
            /\ pc' = [pc EXCEPT ![a] = IF v = "ok" THEN "delete" ELSE "done"]
            /\ result' = [result EXCEPT ![a] = IF v = "ok" THEN "none" ELSE v]
    /\ UNCHANGED <<now, Tables, bookings, locks>>

\* cancelBooking: deleteBooking(bookingId)
CancelDelete(a) ==
    /\ pc[a] = "delete"
    /\ bookings' = deleteBooking(bookings, req[a].bookingId)
    /\ pc' = [pc EXCEPT ![a] = "done"]
    /\ req' = [req EXCEPT ![a] = NoRequest]
    /\ result' = [result EXCEPT ![a] = "success"]
    /\ UNCHANGED <<now, Tables, locks>>

\* the PX expiry of a lock key elapses
ExpireLock ==
    /\ \E l \in locks : locks' = locks \ {l}
    /\ UNCHANGED <<now, Tables, bookings, pc, req, result>>

\* time passes
Tick ==
    /\ \E t \in ClockValues : t > now /\ now' = t
    /\ UNCHANGED <<Tables, bookings, locks, pc, req, result>>

Next ==
    \/ \E a \in Attempts : CreateStart(a)
    \/ \E a \in Attempts : RescheduleStart(a)
    \/ \E a \in Attempts : CancelStart(a)
    \/ \E a \in Attempts : AcquireLock(a)
    \/ \E a \in Attempts : Revalidate(a)
    \/ \E a \in Attempts : Persist(a)
    \/ \E a \in Attempts : ReleaseLock(a)
    \/ \E a \in Attempts : CancelDelete(a)
    \/ ExpireLock
    \/ Tick

Spec == Init /\ [][Next]_vars

\* the same system while no lock key reaches its expiry
NextNoExpiry ==
    \/ \E a \in Attempts : CreateStart(a)
    \/ \E a \in Attempts : RescheduleStart(a)
    \/ \E a \in Attempts : CancelStart(a)
    \/ \E a \in Attempts : AcquireLock(a)
    \/ \E a \in Attempts : Revalidate(a)
    \/ \E a \in Attempts : Persist(a)
    \/ \E a \in Attempts : ReleaseLock(a)
    \/ \E a \in Attempts : CancelDelete(a)
    \/ Tick

SpecNoExpiry == Init /\ [][NextNoExpiry]_vars

\* a createBooking request for Slot2 of alice arrives while the pipeline lists
\* the slot; the request is not followed by another
CreateSlot2Start(a) ==
    /\ pc[a] = "idle"
    /\ isSlotAvailable(calculateAvailableSlots("o1"), Slot2.startTime, Slot2.endTime)
    /\ LET r == [NoRequest EXCEPT !.kind = "create", !.organizerUsername = "alice",
                                   !.attendantEmail = "bob@example.com",
                                   !.startTime = Slot2.startTime,
                                   !.endTime = Slot2.endTime]
       IN  /\ CreateValidate(r) = "ok"
           /\ req' = [req EXCEPT ![a] = r]
    /\ pc' = [pc EXCEPT ![a] = "acquire"]
    /\ UNCHANGED <<now, Tables, bookings, locks, result>>

\* two createBooking requests for the same organizer and start time, and
\* nothing else
NextTwoCreates ==
    \/ \E a \in Attempts : CreateSlot2Start(a)
    \/ \E a \in Attempts : AcquireLock(a)
    \/ \E a \in Attempts : Revalidate(a)
    \/ \E a \in Attempts : Persist(a)
    \/ \E a \in Attempts : ReleaseLock(a)
    \/ ExpireLock

SpecTwoCreates == Init /\ [][NextTwoCreates]_vars

---------------------------------------------------------------------------
(* The availability pipeline on its own: getAvailableSlotsByUsername over   *)
(* tables as the settings layer and earlier bookings may have left them     *)

\* startDate / endDate of the request not sent
NoDate == -1

\* getAvailableSlotsByUsernameSchema
ListRequests ==
    { [username |-> u, startDate |-> d.startDate, endDate |-> d.endDate]
        : u \in {"alice", "bob", "carol"},
          d \in { [startDate |-> NoDate, endDate |-> NoDate],
                  [startDate |-> At(1, 0, 0), endDate |-> NoDate],
                  [startDate |-> NoDate, endDate |-> At(2, 11, 0)] } }

\* the filter by date range, applied when a bound was sent
filterByDateRange(slots, startDate, endDate) ==
    LET Keep(slot) ==
            IF startDate # NoDate /\ slot.startTime < startDate THEN FALSE
            ELSE IF endDate # NoDate /\ slot.startTime > endDate THEN FALSE
            ELSE TRUE
    IN  IF startDate # NoDate \/ endDate # NoDate
        THEN SelectSeq(slots, Keep)
        ELSE slots

\* the handler getAvailableSlotsByUsername: the slots listed for a username
GetAvailableSlotsByUsername(a) ==
    /\ pc[a] \in {"idle", "done"}
    /\ \E r \in ListRequests :
        LET userResult == getUserByUsername(r.username)
            userId == (CHOOSE u \in userResult : TRUE).id
            userSlots == calculateAvailableSlotsCall(userId)
        IN  IF userResult = {}
            THEN /\ pc' = [pc EXCEPT ![a] = "done"]
                 /\ result' = [result EXCEPT ![a] = "organizer_notfound"]
            ELSE IF userSlots.thrown # "none"
            THEN /\ pc' = [pc EXCEPT ![a] = "done"]
                 /\ result' = [result EXCEPT ![a] = userSlots.thrown]
            ELSE /\ pc' = [pc EXCEPT ![a] = "listed"]
                 /\ result' = [result EXCEPT ![a] =
                        [username |-> r.username,
                         settings |-> userSlots.settings,
                         slots |-> filterByDateRange(userSlots.slots,
                                                     r.startDate, r.endDate)]]
    /\ bookings' = bookingsAfterSelect(bookings)
    /\ UNCHANGED <<now, Tables, locks, req>>

\* the settings the organizer switches between on the settings page
LifecycleSettings == {Settings1, [Settings1 EXCEPT !.postBookingBuffer = 0]}

\* the settings layer: updateOrganizerSettings for a user who has a settings row
UpdateOrganizerSettings ==
    /\ \E userId \in DOMAIN organizerSettings : \E s \in LifecycleSettings :
          /\ s # organizerSettings[userId]
          /\ organizerSettings' = [organizerSettings EXCEPT ![userId] = s]
    /\ UNCHANGED <<now, workingHours, blackoutDates, bookings, locks, pc, req, result>>

\* the booking handlers, the listing and the settings layer side by side
NextLifecycle ==
    \/ \E a \in Attempts : CreateStart(a)
    \/ \E a \in Attempts : RescheduleStart(a)
    \/ \E a \in Attempts : CancelStart(a)
    \/ \E a \in Attempts : AcquireLock(a)
    \/ \E a \in Attempts : Revalidate(a)
    \/ \E a \in Attempts : Persist(a)
    \/ \E a \in Attempts : ReleaseLock(a)
    \/ \E a \in Attempts : CancelDelete(a)
    \/ \E a \in Attempts : GetAvailableSlotsByUsername(a)
    \/ UpdateOrganizerSettings
    \/ Tick

SpecLifecycle == Init /\ [][NextLifecycle]_vars

\* organizer settings within organizerSettingsSchema: zones UTC, UTC+2 and
\* UTC-5, with and without buffers and notice
PipelineSettings ==
    { [workingTimezone |-> tz, defaultMeetingDuration |-> d,
       preBookingBuffer |-> pre, postBookingBuffer |-> post,
       minBookingNotice |-> notice, maxBookingAdvance |-> adv]
        : tz \in {0, 120, -300}, d \in {45, 60}, pre \in {0, 15},
          post \in {0, 120}, notice \in {0, 2}, adv \in {2} }
    \cup
    { [workingTimezone |-> 0, defaultMeetingDuration |-> 60,
       preBookingBuffer |-> 0, postBookingBuffer |-> 0,
       minBookingNotice |-> 0, maxBookingAdvance |-> 1] }

\* a working_hours row with startTime h1:m1 and endTime h2:m2
WorkingHoursRow(userId, dayOfWeek, h1, m1, h2, m2, isActive, deleted) ==
    [userId |-> userId, dayOfWeek |-> dayOfWeek, isActive |-> isActive,
     deleted |-> deleted,
     startTime |-> [hour |-> h1, minute |-> m1],
     endTime |-> [hour |-> h2, minute |-> m2]]

\* working hours of alice from Thursday to Sunday: evening blocks, a block
\* that does not hold a whole number of meetings, two blocks on one day, an
\* inactive block, a deleted block, and a block of another user
PipelineTemplate ==
    << WorkingHoursRow("o1", "0", 9, 0, 11, 0, TRUE, FALSE),
       WorkingHoursRow("o1", "4", 18, 0, 20, 0, TRUE, FALSE),
       WorkingHoursRow("o1", "4", 22, 0, 23, 0, TRUE, FALSE),
       WorkingHoursRow("o1", "5", 0, 0, 1, 30, TRUE, FALSE),
       WorkingHoursRow("o1", "5", 14, 0, 15, 0, TRUE, FALSE),
       WorkingHoursRow("o1", "5", 16, 0, 18, 0, FALSE, FALSE),
       WorkingHoursRow("o1", "6", 10, 0, 13, 30, TRUE, FALSE),
       WorkingHoursRow("o1", "6", 15, 0, 17, 0, FALSE, FALSE),
       WorkingHoursRow("o1", "6", 20, 0, 22, 0, TRUE, TRUE),
       WorkingHoursRow("o2", "6", 6, 0, 8, 0, TRUE, FALSE) >>

\* working hours of alice on Friday entered in the order afternoon, night,
\* with three night blocks that overlap, and one block on Saturday
OverlapTemplate ==
    << WorkingHoursRow("o1", "5", 14, 0, 15, 0, TRUE, FALSE),
       WorkingHoursRow("o1", "5", 0, 0, 2, 0, TRUE, FALSE),
       WorkingHoursRow("o1", "5", 1, 0, 3, 0, TRUE, FALSE),
       WorkingHoursRow("o1", "5", 1, 30, 3, 0, TRUE, FALSE),
       WorkingHoursRow("o1", "6", 10, 0, 12, 0, TRUE, FALSE) >>

PipelineTemplates == {Template, PipelineTemplate, OverlapTemplate}

BookingRow(id, organizerId, startTime, endTime, deleted) ==
    [id |-> id, organizerId |-> organizerId,
     attendantEmail |-> "bob@example.com",
     startTime |-> startTime, endTime |-> endTime, deleted |-> deleted]

\* the bookings table: empty; one booking on Thursday evening; on Saturday a
\* booking between two slots and a cancelled one; a booking of another organizer
PipelineBookings ==
    { <<>>,
      <<BookingRow(1, "o1", At(0, 22, 0), At(0, 23, 0), FALSE)>>,
      <<BookingRow(1, "o1", At(2, 11, 0), At(2, 12, 0), FALSE),
        BookingRow(2, "o1", At(2, 10, 0), At(2, 11, 0), TRUE)>>,
      <<BookingRow(1, "o2", At(2, 10, 0), At(2, 11, 0), FALSE),
        BookingRow(2, "o1", At(1, 0, 0), At(1, 1, 0), FALSE)>> }

BlackoutRow(userId, date, deleted) ==
    [userId |-> userId, date |-> date, deleted |-> deleted]

\* the blackout_dates table: empty; Friday, entered at midnight UTC, and a
\* removed Saturday; Saturday entered late in the evening UTC, and a
\* blackout of another user
PipelineBlackouts ==
    { {},
      {BlackoutRow("o1", At(1, 0, 0), FALSE), BlackoutRow("o1", At(2, 0, 0), TRUE)},
      {BlackoutRow("o1", At(2, 23, 0), FALSE), BlackoutRow("o2", At(1, 0, 0), FALSE)} }

\* Thursday 20:00 and 23:00, Friday 03:00, Saturday 12:00 (UTC)
PipelineClock == {At(0, 20, 0), At(0, 23, 0), At(1, 3, 0), At(2, 12, 0)}

InitPipeline ==
    /\ now \in PipelineClock
    /\ \E s \in PipelineSettings : organizerSettings = [o \in {"o1"} |-> s]
    /\ workingHours \in PipelineTemplates
    /\ blackoutDates \in PipelineBlackouts
    /\ bookings \in PipelineBookings
    /\ locks = {}
    /\ pc = [a \in Attempts |-> "idle"]
    /\ req = [a \in Attempts |-> NoRequest]
    /\ result = [a \in Attempts |-> "none"]

NextPipeline == \E a \in Attempts : GetAvailableSlotsByUsername(a)

SpecPipeline == InitPipeline /\ [][NextPipeline]_vars

\* what calculateAvailableSlots computes on the way, for organizer o
WindowOf(o) == getTimeWindowInTimezone(getOrganizerSettings(o))

CandidateSlotsOf(o) ==
    generateCandidateSlotsUTC(WindowOf(o).startInTZ, WindowOf(o).endInTZ,
                              getWorkingHoursByUserId(o), getOrganizerSettings(o))

BufferedBookingsOf(o) ==
    applyBufferTimes(
        getBookingsByOrganizerInDateRange(o, WindowOf(o).startUTC, WindowOf(o).endUTC),
        getOrganizerSettings(o))

Range(seq) == {seq[i] : i \in 1..Len(seq)}

\* the requests that have returned a list of slots
Listed == {a \in Attempts : pc[a] = "listed"}

---------------------------------------------------------------------------
(* Claims *)

BufferedStart(b) == b.startTime - getOrganizerSettings(b.organizerId).preBookingBuffer
BufferedEnd(b) == b.endTime + getOrganizerSettings(b.organizerId).postBookingBuffer

\* C1: at most one non-deleted booking exists for one organizer and one slot
\* start time, whatever the interleaving of the commit attempts, lock expiry
\* included.
C1_AtMostOneBookingPerSlot ==
    \A b1, b2 \in ActiveBookings :
        (b1.organizerId = b2.organizerId /\ b1.startTime = b2.startTime)
            => b1.id = b2.id

\* C2: no two non-deleted bookings of an organizer have overlapping buffered
\* intervals [start - preBookingBuffer, end + postBookingBuffer].
C2_NoBufferedOverlap ==
    \A b1, b2 \in ActiveBookings :
        (b1.id # b2.id /\ b1.organizerId = b2.organizerId)
            => ~(BufferedStart(b1) < BufferedEnd(b2)
                    /\ BufferedEnd(b1) > BufferedStart(b2))

\* C7: every slot the pipeline returns is clear of the buffered interval of
\* every non-deleted booking of the organizer, whatever the booking's start.
C7_SlotsClearOfEveryBooking ==
    \A o \in DOMAIN organizerSettings :
        LET slots == calculateAvailableSlots(o)
        IN  \A i \in 1..Len(slots) : \A b \in ActiveBookings :
                b.organizerId = o =>
                    \/ slots[i].startTime >= BufferedEnd(b)
                    \/ slots[i].endTime <= BufferedStart(b)

InCriticalSection(a) == pc[a] \in {"revalidate", "persist", "release"}

\* C3: of two createBooking attempts for the same organizer and start time on
\* a listed slot, with storage working, exactly one ends in success and the
\* other in a conflict error.
C3_ExactlyOneOfTwoSucceeds ==
    (/\ \A a \in Attempts : pc[a] = "done"
     /\ \A a \in Attempts : result[a] \notin {"failed", "error"})
        => \E a, b \in Attempts :
              /\ a # b
              /\ result[a] = "success"
              /\ result[b] \in {"locked", "unavailable"}

\* C4: once every attempt has returned, no lock key is set: each attempt that
\* acquired the lock has deleted it, whichever way it left the try block.
C4_NoLockLeftBehind ==
    (\A a \in Attempts : pc[a] \in {"idle", "done"}) => locks = {}

C4_Witness ==
    /\ \A a \in Attempts : pc[a] = "done"
    /\ locks = {}
    /\ \E a, b \in Attempts :
          result[a] = "unavailable" /\ result[b] \in {"failed", "error"}

\* C5: while no key expires, the attempts between AcquireLock and release are
\* on pairwise different keys, and each one's key is set, by it.
C5_OneHolderPerKey ==
    \A a \in Attempts :
        InCriticalSection(a) =>
            /\ HoldsLock(a)
            /\ \A b \in Attempts \ {a} :
                  InCriticalSection(b) => LockKey(b) # LockKey(a)

C5_Witness ==
    \E a, b \in Attempts :
        /\ InCriticalSection(a)
        /\ pc[b] = "done" /\ result[b] = "locked"

HasExactSlot(a) ==
    LET slots == calculateAvailableSlots(OrganizerIdOf(req[a]))
    IN  \E i \in 1..Len(slots) :
            /\ slots[i].startTime = req[a].startTime
            /\ slots[i].endTime = req[a].endTime

\* C6: an attempt goes on to the write only if the pipeline, run under the
\* lock, returned a slot with exactly the requested start and end; otherwise
\* it ends in Conflict without writing; and the bookings table is written by
\* a commit only from that write step.
C6_CommitOnlyAfterExactMatch ==
    [][\A a \in Attempts :
        /\ pc'[a] = "persist" =>
              \/ pc[a] = "persist"
              \/ pc[a] = "revalidate" /\ HasExactSlot(a)
        /\ (pc[a] = "revalidate" /\ pc'[a] # "revalidate" /\ ~HasExactSlot(a)) =>
              /\ pc'[a] = "release"
              /\ result'[a] \in {"unavailable", "error"}
              /\ bookings' = bookings
        /\ (pc[a] # "persist" /\ result'[a] = "success" /\ result[a] # "success") =>
              pc[a] = "delete"
      ]_vars

C6_Witness ==
    \E a, b \in Attempts :
        /\ pc[a] = "release" /\ result[a] = "unavailable"
        /\ req[a].startTime = Slot2.startTime /\ req[a].endTime # Slot2.endTime
        /\ pc[b] = "done" /\ result[b] = "success"
        /\ Len(bookings) = 1

\* C8: an attempt whose SET NX is refused returns at once with the conflict
\* error: no revalidation, no write, and the holder's key stays set.
C8_RefusedAcquireEndsInConflict ==
    [][\A a \in Attempts :
        (pc[a] = "acquire" /\ KeyIsSet(LockKey(a)) /\ pc'[a] # "acquire") =>
            /\ pc'[a] = "done"
            /\ result'[a] = "locked"
            /\ locks' = locks
            /\ bookings' = bookings
      ]_vars

C8_Witness ==
    \E a, b \in Attempts :
        /\ pc[a] = "done" /\ result[a] = "locked"
        /\ InCriticalSection(b)
        /\ HoldsLock(b)

NotFoundResults == {"organizer_notfound", "settings_notfound", "booking_notfound"}

PastValidation(a) == pc[a] \in {"acquire", "revalidate", "persist", "release"}

\* C9: a create or reschedule request that fails validation or finds no
\* organizer, booking or settings returns before any lock key is set: it
\* changes neither the lock store nor the bookings table, and no request
\* with such a defect gets as far as the lock.
C9_ErrorsBeforeLock ==
    /\ [](\A a \in Attempts :
            PastValidation(a) =>
                /\ req[a].startTime < req[a].endTime
                /\ IF req[a].kind = "create"
                   THEN /\ getUserByUsername(req[a].organizerUsername) # {}
                        /\ getOrganizerSettings(OrganizerIdOf(req[a])) # NoSettings
                   ELSE /\ req[a].bookingId \in 1..Len(bookings)
                        /\ getOrganizerSettings(OrganizerIdOf(req[a])) # NoSettings)
    /\ [][\A a \in Attempts :
            (/\ result'[a] \in {"validation"} \cup NotFoundResults
             /\ (result[a] # result'[a] \/ pc[a] # pc'[a])) =>
                /\ pc[a] \in {"idle", "done"}
                /\ pc'[a] = "done"
                /\ locks' = locks
                /\ bookings' = bookings
       ]_vars

C9_Witness ==
    /\ \E a, b \in Attempts :
          /\ pc[a] = "done" /\ result[a] = "validation"
          /\ pc[b] = "done" /\ result[b] = "settings_notfound"
    /\ locks = {}
    /\ Len(bookings) = 1

\* C10: a failed write (no row returned, or an error thrown) ends the attempt
\* in failure, changes no booking, and is followed by the deletion of the
\* lock key.
C10_FailedPersistLeavesNoTrace ==
    [][\A a \in Attempts :
        /\ (pc[a] = "persist" /\ result'[a] = "failed") =>
              /\ bookings' = bookings
              /\ pc'[a] = "release"
        /\ (pc[a] = "release" /\ result[a] = "failed" /\ pc'[a] # "release") =>
              /\ pc'[a] = "done"
              /\ result'[a] = "failed"
              /\ bookings' = bookings
              /\ \A l \in locks' : l.key # LockKey(a)
      ]_vars

C10_Witness ==
    \E a, b \in Attempts :
        /\ pc[a] = "done" /\ result[a] = "failed"
        /\ pc[b] = "release" /\ result[b] = "failed" /\ req[b].kind = "reschedule"
        /\ locks # {}

\* the lock keys the handlers can build
AllLockKeys ==
    {LockKeyOf(u.id, r.startTime) : u \in userTable, r \in TimeRanges}

\* C11: the reply of an acquisition depends on its own key only.  Keys built
\* from a different organizer or a different start time are different keys,
\* the reply for a key is the same whatever other keys are set, and an attempt
\* whose own key is not set goes on under the lock however many others hold
\* theirs.
C11_OtherKeysDoNotRefuse ==
    /\ [](/\ \A u1, u2 \in userTable : \A r1, r2 \in TimeRanges :
                (u1.id # u2.id \/ r1.startTime # r2.startTime) =>
                    LockKeyOf(u1.id, r1.startTime) # LockKeyOf(u2.id, r2.startTime)
          /\ \A key \in AllLockKeys :
                SetNXReply(locks, key)
                    = SetNXReply({l \in locks : l.key = key}, key))
    /\ [][\A a \in Attempts :
            (pc[a] = "acquire" /\ pc'[a] # "acquire") =>
                /\ pc'[a] = "revalidate" <=> ~KeyIsSet(LockKey(a))
                /\ pc'[a] = "done" <=> KeyIsSet(LockKey(a))
       ]_vars

C11_Witness ==
    \E a, b \in Attempts :
        /\ a # b
        /\ InCriticalSection(a) /\ HoldsLock(a)
        /\ InCriticalSection(b) /\ HoldsLock(b)
        /\ LockKey(a) # LockKey(b)
        /\ Cardinality(locks) = 2

\* C12: a rescheduleBooking that succeeds has set the lock key of the new
\* start time, and its write changes startTime and endTime of the existing
\* row to the requested ones and nothing else: the row keeps its id, organizer
\* and deletion mark, no row is added, every other row is unchanged.
C12_RescheduleUpdatesInPlace ==
    [][\A a \in Attempts :
        req[a].kind = "reschedule" =>
            LET id == req[a].bookingId
            IN  /\ (pc[a] = "acquire" /\ pc'[a] = "revalidate") =>
                      /\ locks' \ locks \subseteq
                            {l \in locks' :
                                l.key = LockKeyOf(bookings[id].organizerId,
                                                  req[a].startTime)}
                      /\ locks' # locks
                /\ (pc[a] = "persist" /\ result'[a] = "success") =>
                      /\ Len(bookings') = Len(bookings)
                      /\ \A i \in 1..Len(bookings) :
                            i # id => bookings'[i] = bookings[i]
                      /\ bookings'[id] =
                            [bookings[id] EXCEPT !.startTime = req[a].startTime,
                                                 !.endTime = req[a].endTime]
      ]_vars

C12_Witness ==
    \E a \in Attempts :
        /\ req[a].kind = "reschedule"
        /\ pc[a] = "release" /\ result[a] = "success"
        /\ Len(bookings) = 2
        /\ bookings[req[a].bookingId].startTime = req[a].startTime
        /\ \E i \in 1..Len(bookings) :
              i # req[a].bookingId /\ bookings[i].startTime # req[a].startTime

\* the username names a registered user who is the booking's organizer or
\* whose email is the booking's attendant email
IsOrganizerOrAttendant(username, booking) ==
    \E u \in userTable :
        /\ u.username = username
        /\ (u.id = booking.organizerId \/ u.email = booking.attendantEmail)

\* C13: a booking is cancelled only on the request of its organizer or its
\* attendant: a cancelBooking call made in the name of anybody else, or in
\* nobody's name, ends in an error and does not mark the booking deleted.
C13_CancelOnlyByOrganizerOrAttendant ==
    [][\A a \in Attempts :
        /\ (pc[a] = "delete" /\ pc'[a] # "delete") =>
              IsOrganizerOrAttendant(req[a].requestingUsername,
                                     bookings[req[a].bookingId])
        /\ \A i \in 1..Len(bookings) :
              (~bookings[i].deleted /\ bookings'[i].deleted) =>
                  \E b \in Attempts :
                      /\ pc[b] = "delete" /\ req[b].bookingId = i
                      /\ IsOrganizerOrAttendant(req[b].requestingUsername,
                                                bookings[i])
      ]_vars

\* C14: every slot listed ends after now and starts no earlier than now plus
\* minBookingNotice hours; of the candidate slots, the one that starts exactly
\* at now + minBookingNotice passes the business rules and the one that ends
\* exactly at now does not.
C14_NoticeAndPastRespected ==
    /\ \A a \in Listed :
          \A slot \in Range(result[a].slots) :
              /\ slot.endTime > now
              /\ slot.startTime >=
                    now + result[a].settings.minBookingNotice * MinutesPerHour
    /\ LET settings == getOrganizerSettings("o1")
           candidates == CandidateSlotsOf("o1")
           kept == Range(applyBusinessRulesToSlots(candidates, settings))
       IN  \A c \in Range(candidates) :
              /\ c.startTimeUTC = now + settings.minBookingNotice * MinutesPerHour
                    => c \in kept
              /\ c.endTimeUTC = now => c \notin kept

C14_Witness ==
    \E a \in Listed :
        /\ result[a].settings.minBookingNotice > 0
        /\ \E slot \in Range(result[a].slots) :
              slot.startTime =
                  now + result[a].settings.minBookingNotice * MinutesPerHour
        /\ \E c \in Range(CandidateSlotsOf("o1")) :
              /\ c.endTimeUTC = now
              /\ \A slot \in Range(result[a].slots) :
                    slot.startTime # c.startTimeUTC

\* the calendar day of instant t on the wall clock of a zone, as a day number
LocalDay(t, offset) == (t + offset) \div MinutesPerDay

\* C15: no slot listed starts on the local calendar day, in the organizer's
\* working timezone, of a blackout date of that organizer that is not deleted.
C15_NoSlotOnBlackoutDay ==
    \A a \in Listed :
        LET organizer == CHOOSE u \in userTable : u.username = result[a].username
            timezone == result[a].settings.workingTimezone
        IN  \A slot \in Range(result[a].slots) :
                \A blackout \in blackoutDates :
                    (blackout.userId = organizer.id /\ ~blackout.deleted) =>
                        LocalDay(slot.startTime, timezone)
                            # LocalDay(blackout.date, timezone)

C15_Witness ==
    \E a \in Listed :
        LET timezone == result[a].settings.workingTimezone
        IN  /\ result[a].slots # <<>>
            /\ \E blackout \in blackoutDates :
                  /\ blackout.userId = "o1" /\ ~blackout.deleted
                  /\ LocalDay(blackout.date, timezone) # LocalDay(blackout.date, 0)
                  /\ \E c \in Range(CandidateSlotsOf("o1")) :
                        /\ LocalDay(c.startTimeUTC, timezone)
                              = LocalDay(blackout.date, timezone)
                        /\ c.startTimeUTC > now

\* C16: the window starts at the start of the organizer's current local day
\* and ends maxBookingAdvance days later; every slot listed starts at or after
\* the window start and ends at or before the window end, so that with
\* maxBookingAdvance = 2 no slot lies on the third local day.
C16_SlotsWithinWindow ==
    /\ LET settings == getOrganizerSettings("o1")
           window == getTimeWindowInTimezone(settings)
       IN  /\ window.startInTZ =
                 LocalDay(now, settings.workingTimezone) * MinutesPerDay
                     - settings.workingTimezone
           /\ window.endInTZ =
                 window.startInTZ + settings.maxBookingAdvance * MinutesPerDay
           /\ window.startUTC = window.startInTZ
           /\ window.endUTC = window.endInTZ
    /\ \A a \in Listed :
          LET settings == result[a].settings
              timezone == settings.workingTimezone
              windowStart == LocalDay(now, timezone) * MinutesPerDay - timezone
          IN  \A slot \in Range(result[a].slots) :
                  /\ slot.startTime >= windowStart
                  /\ slot.endTime <=
                        windowStart + settings.maxBookingAdvance * MinutesPerDay
                  /\ settings.maxBookingAdvance = 2 =>
                        LocalDay(slot.startTime, timezone)
                            < LocalDay(now, timezone) + 2

C16_Witness ==
    \E a \in Listed :
        /\ result[a].settings.maxBookingAdvance = 2
        /\ result[a].settings.workingTimezone = 0
        /\ now = At(0, 20, 0)
        /\ \E wh \in Range(getWorkingHoursByUserId("o1")) :
              wh.dayOfWeek = "6" /\ wh.isActive
        /\ \E slot \in Range(result[a].slots) :
              LocalDay(slot.startTime, 0) = LocalDay(now, 0) + 1

\* the names of the days of the week as stored in working_hours.dayOfWeek,
\* Sunday first
DayOfWeekNames == <<"0", "1", "2", "3", "4", "5", "6">>

\* day 0 of the time axis (1970-01-01) is a Thursday
LocalDayOfWeek(t, offset) == DayOfWeekNames[((LocalDay(t, offset) + 4) % 7) + 1]

\* the minute of the day of an "HH:mm" time
MinuteOfDay(time) == time.hour * MinutesPerHour + time.minute

\* the number of whole meetings of length d in a block (none when the block
\* is shorter than one meeting)
WholeSlotsIn(wh, d) ==
    IF MinuteOfDay(wh.endTime) - MinuteOfDay(wh.startTime) >= d
    THEN (MinuteOfDay(wh.endTime) - MinuteOfDay(wh.startTime)) \div d
    ELSE 0

\* <<day start, block index, k>> for every slot the generator is to emit:
\* the days of the window, the active blocks of each day's day of the week,
\* k below the number of whole meetings of the block
ExpectedSlotIndex(windowStart, days, hours, settings) ==
    { t \in { windowStart + n * MinutesPerDay : n \in 0..(days - 1) }
              \X (1..Len(hours))
              \X (0..(MinutesPerDay \div settings.defaultMeetingDuration)) :
        /\ hours[t[2]].isActive
        /\ hours[t[2]].dayOfWeek = LocalDayOfWeek(t[1], settings.workingTimezone)
        /\ t[3] < WholeSlotsIn(hours[t[2]], settings.defaultMeetingDuration) }

ExpectedSlot(t, hours, settings) ==
    LET blockStart == t[1] + MinuteOfDay(hours[t[2]].startTime)
        d == settings.defaultMeetingDuration
    IN  [startTimeUTC |-> blockStart + t[3] * d,
         endTimeUTC |-> blockStart + (t[3] + 1) * d,
         duration |-> d]

\* C17: generateCandidateSlotsUTC emits, for each day of the window and each
\* active block of that day's local day of the week (Sunday = "0"), the slots
\* [blockStart + k*d, blockStart + (k+1)*d) for k = 0 .. floor((blockEnd -
\* blockStart) / d) - 1 with d = defaultMeetingDuration, each once per block,
\* and nothing else: no slot of another length, no partial last slot, nothing
\* for an inactive block or a block of another day.
C17_ExactSlotsPerBlock ==
    LET settings == getOrganizerSettings("o1")
        hours == getWorkingHoursByUserId("o1")
        window == WindowOf("o1")
        emitted == generateCandidateSlotsUTC(window.startInTZ, window.endInTZ,
                                             hours, settings)
        expected == ExpectedSlotIndex(window.startInTZ,
                                      settings.maxBookingAdvance, hours, settings)
    IN  /\ Range(emitted) = {ExpectedSlot(t, hours, settings) : t \in expected}
        /\ Len(emitted) = Cardinality(expected)
        /\ \A slot \in Range(emitted) :
              /\ slot.duration = settings.defaultMeetingDuration
              /\ slot.endTimeUTC = slot.startTimeUTC + slot.duration
        /\ \A a \in Listed :
              \A slot \in Range(result[a].slots) :
                  /\ slot.duration = result[a].settings.defaultMeetingDuration
                  /\ slot.endTime = slot.startTime + slot.duration

C17_Witness ==
    /\ now = At(2, 12, 0)
    /\ workingHours = PipelineTemplate
    /\ getOrganizerSettings("o1").defaultMeetingDuration = 45
    /\ getOrganizerSettings("o1").workingTimezone = 120
    /\ Len(CandidateSlotsOf("o1")) = 6
    /\ \E a \in Listed :
          \E slot \in Range(result[a].slots) :
              LocalDayOfWeek(slot.startTime, 120) = "0"

\* C18: filterCollidingSlots drops a candidate slot exactly when, for some
\* booking, the slot starts before the booking's end plus the post buffer and
\* ends after the booking's start minus the pre buffer.  A slot that only
\* touches a buffered interval is kept: with zero buffers the slots next to a
\* booking stay and the slot of the booking goes; with a pre buffer the slot
\* that ends at the booking's start goes too.
C18_CollisionBoundaries ==
    LET settings == getOrganizerSettings("o1")
        pre == settings.preBookingBuffer
        post == settings.postBookingBuffer
        window == WindowOf("o1")
        existing == getBookingsByOrganizerInDateRange(
                        "o1", window.startUTC, window.endUTC)
        candidates == CandidateSlotsOf("o1")
        kept == Range(filterCollidingSlots(candidates,
                                           applyBufferTimes(existing, settings)))
    IN  /\ kept \subseteq Range(candidates)
        /\ \A c \in Range(candidates) :
              c \notin kept <=>
                  \E b \in existing :
                      /\ c.startTimeUTC < b.endTime + post
                      /\ c.endTimeUTC > b.startTime - pre
        /\ \A c \in Range(candidates) : \A b \in existing :
              /\ (Cardinality(existing) = 1 /\ c.endTimeUTC = b.startTime - pre)
                    => c \in kept
              /\ (Cardinality(existing) = 1 /\ c.startTimeUTC = b.endTime + post)
                    => c \in kept
              /\ (c.startTimeUTC = b.startTime /\ c.endTimeUTC = b.endTime)
                    => c \notin kept
              /\ (pre > 0 /\ c.endTimeUTC = b.startTime) => c \notin kept

C18_Witness ==
    /\ getOrganizerSettings("o1").preBookingBuffer = 0
    /\ getOrganizerSettings("o1").postBookingBuffer = 0
    /\ \E i \in 1..Len(bookings) :
          /\ bookings[i].organizerId = "o1" /\ ~bookings[i].deleted
          /\ \E a \in Listed :
                LET starts == {slot.startTime : slot \in Range(result[a].slots)}
                    ends == {slot.endTime : slot \in Range(result[a].slots)}
                IN  /\ bookings[i].startTime \in ends
                    /\ bookings[i].endTime \in starts
                    /\ bookings[i].startTime \notin starts
                    /\ bookings[i].startTime
                          \in {c.startTimeUTC : c \in Range(CandidateSlotsOf("o1"))}

\* C19: a run of calculateAvailableSlots, for a listing or for the
\* revalidation of a commit, leaves the bookings table and the lock keys as
\* they were; and no step of a createBooking, rescheduleBooking, cancelBooking
\* or listing request changes organizer settings, working hours or blackout
\* dates: those change only by the settings layer, between the steps.
C19_LifecycleFrame ==
    [][\A a \in Attempts :
        /\ (pc[a] # "listed" /\ pc'[a] = "listed") =>
              bookings' = bookings /\ locks' = locks
        /\ (pc[a] = "revalidate" /\ pc'[a] # "revalidate") =>
              bookings' = bookings /\ locks' = locks
        /\ pc'[a] # pc[a] => Tables' = Tables
      ]_vars

C19_Witness ==
    \E a, b \in Attempts :
        /\ pc[a] = "listed" /\ result[a].slots # <<>>
        /\ pc[b] = "release" /\ HoldsLock(b)
        /\ req[b].kind = "reschedule" /\ result[b] = "success"
        /\ \E i \in 1..Len(bookings) : bookings[i].deleted
        /\ organizerSettings["o1"] # Settings1

\* C20: every booking lock key is set with an expiry of 10000 ms, by
\* createBooking and by rescheduleBooking alike, under the same key prefix.
C20_LockExpiryTenSeconds ==
    /\ rescheduleBooking_LOCK_PREFIX = LOCK_PREFIX
    /\ \A l \in locks :
          /\ l.key[1] = "lock:booking"
          /\ l.px = 10000

\* the positions of a sequence of slots are in ascending order of start time
IsSortedByStartTime(slots) ==
    \A i, j \in 1..Len(slots) : i < j => slots[i].startTime <= slots[j].startTime

\* C21: the slot list of calculateAvailableSlots is in ascending order of
\* start time, whatever the order in which the working-hour blocks of a day
\* are stored, and so is every list a listing request returns.
C21_SlotsSortedByStart ==
    /\ \A o \in DOMAIN organizerSettings :
          IsSortedByStartTime(calculateAvailableSlots(o))
    /\ \A a \in Listed : IsSortedByStartTime(result[a].slots)

C21_Witness ==
    /\ \E i, j \in 1..Len(CandidateSlotsOf("o1")) :
          /\ i < j
          /\ CandidateSlotsOf("o1")[i].startTimeUTC
                > CandidateSlotsOf("o1")[j].startTimeUTC
          /\ \E a \in Listed :
                {CandidateSlotsOf("o1")[i].startTimeUTC,
                 CandidateSlotsOf("o1")[j].startTimeUTC}
                    \subseteq {slot.startTime : slot \in Range(result[a].slots)}

\* how many positions of a sequence hold x
Occurrences(seq, x) == Cardinality({i \in 1..Len(seq) : seq[i] = x})

\* the candidate slot in the form calculateAvailableSlots returns it
ReturnedSlot(c) ==
    [startTime |-> c.startTimeUTC, endTime |-> c.endTimeUTC, duration |-> c.duration]

\* candidate slot c of organizer o is on no blackout day, collides with no
\* buffered booking and passes the business rules
PassesFilters(c, o) ==
    LET settings == getOrganizerSettings(o)
        blackouts == getBlackoutDatesByUserIdAndDateRange(
                         o, WindowOf(o).startUTC, WindowOf(o).endUTC)
    IN  applyBusinessRulesToSlots(
            filterCollidingSlots(
                filterSlotsByBlackoutDates(<<c>>, blackouts, settings.workingTimezone),
                BufferedBookingsOf(o)),
            settings) = <<c>>

\* <<day number, block index>> of the blocks that produce candidate slot c:
\* an active block of the day's day of the week, of which c is one of the
\* whole meetings
BlocksEmitting(c, windowStart, days, hours, settings) ==
    { t \in (0..(days - 1)) \X (1..Len(hours)) :
        LET dayStart == windowStart + t[1] * MinutesPerDay
            wh == hours[t[2]]
            d == settings.defaultMeetingDuration
            offset == c.startTimeUTC - (dayStart + MinuteOfDay(wh.startTime))
        IN  /\ wh.isActive
            /\ wh.dayOfWeek = LocalDayOfWeek(dayStart, settings.workingTimezone)
            /\ offset >= 0
            /\ offset % d = 0
            /\ offset \div d < WholeSlotsIn(wh, d)
            /\ c.endTimeUTC = c.startTimeUTC + d }

C23_SettingsMissingFailsBeforeReads ==
    /\ [](\A u \in userTable :
            LET call == calculateAvailableSlotsCall(u.id)
            IN  IF getOrganizerSettings(u.id) = NoSettings
                THEN /\ call.thrown = "settings_notfound"
                     /\ call.slots = <<>>
                     /\ call.queries \cap {"working_hours", "blackout_dates",
                                            "bookings"} = {}
                ELSE /\ call.thrown = "none"
                     /\ call.slots = calculateAvailableSlots(u.id))
    /\ [][\A a \in Attempts :
            (pc[a] \in {"idle", "done"} /\ pc'[a] = "listed") =>
                /\ getOrganizerSettings(
                       (CHOOSE u \in userTable : u.username = result'[a].username).id)
                     # NoSettings
                /\ bookings' = bookings
                /\ locks' = locks
       ]_vars
    /\ [][\A a \in Attempts :
            (/\ pc[a] \in {"idle", "done"} /\ pc'[a] = "done"
             /\ result'[a] = "settings_notfound"
             /\ (pc[a] = "idle" \/ result[a] # "settings_notfound")) =>
                /\ \E u \in userTable : getOrganizerSettings(u.id) = NoSettings
                /\ bookings' = bookings
                /\ locks' = locks
       ]_vars

C23_Witness ==
    \E a, b \in Attempts :
        /\ pc[a] = "done" /\ result[a] = "settings_notfound"
        /\ pc[b] = "listed" /\ result[b].slots # <<>>
        /\ calculateAvailableSlotsCall("o2").thrown = "settings_notfound"

\* C24: the release of an attempt never removes a lock key that another
\* attempt has set: when an attempt runs its redis.del, its key is either not
\* set or was set by that attempt itself, also after its own key has expired.
C24_ReleaseRemovesOwnLockOnly ==
    [][\A a \in Attempts :
        (pc[a] = "release" /\ pc'[a] = "done") =>
            \A l \in locks : l.key = LockKey(a) => l.owner = a
      ]_vars

\* C25: no two non-deleted bookings of one organizer have overlapping
\* intervals [start, end), buffers left aside, after any interleaving of
\* createBooking and rescheduleBooking attempts.
C25_NoUnbufferedOverlap ==
    \A b1, b2 \in ActiveBookings :
        (b1.id # b2.id /\ b1.organizerId = b2.organizerId)
            => ~(b1.startTime < b2.endTime /\ b2.startTime < b1.endTime)

\* C26: the write of a rescheduleBooking on a booking that is soft-deleted at
\* that moment does not succeed and leaves the row's time range as it was.
C26_NoRescheduleOfDeletedBooking ==
    [][\A a \in Attempts :
        (/\ req[a].kind = "reschedule"
         /\ pc[a] = "persist" /\ pc'[a] # "persist"
         /\ bookings[req[a].bookingId].deleted) =>
            /\ result'[a] # "success"
            /\ bookings' = bookings
      ]_vars

\* the new time range of reschedule request a overlaps the buffered interval
\* of the current time range of the booking it reschedules
OverlapsOwnBooking(a) ==
    LET own == bookings[req[a].bookingId]
    IN  /\ req[a].startTime < BufferedEnd(own)
        /\ req[a].endTime > BufferedStart(own)

\* C27: in the revalidation of a reschedule the booking being rescheduled
\* counts as an existing booking: when the new slot overlaps the buffered
\* interval of the booking's own current time range, the revalidation ends in
\* "no longer available" (or in the error of a failed query), and no booking
\* is changed.
C27_OwnBookingBlocksReschedule ==
    [][\A a \in Attempts :
        (/\ req[a].kind = "reschedule"
         /\ pc[a] = "revalidate" /\ pc'[a] # "revalidate"
         /\ ~bookings[req[a].bookingId].deleted
         /\ OverlapsOwnBooking(a)) =>
            /\ pc'[a] = "release"
            /\ result'[a] \in {"unavailable", "error"}
            /\ bookings' = bookings
      ]_vars

\* candidate slot c of organizer o is on no blackout day, passes the business
\* rules, and collides with no buffered booking other than booking id
BlockedOnlyBy(c, o, id) ==
    LET settings == getOrganizerSettings(o)
        blackouts == getBlackoutDatesByUserIdAndDateRange(
                         o, WindowOf(o).startUTC, WindowOf(o).endUTC)
        others == {b \in getBookingsByOrganizerInDateRange(
                             o, WindowOf(o).startUTC, WindowOf(o).endUTC) :
                      b.id # id}
    IN  applyBusinessRulesToSlots(
            filterCollidingSlots(
                filterSlotsByBlackoutDates(<<c>>, blackouts, settings.workingTimezone),
                applyBufferTimes(others, settings)),
            settings) = <<c>>

\* C28: a booking blocks slots exactly while it is not soft-deleted.  The slot
\* of a non-deleted booking is in no pipeline result; a successful
\* cancelBooking marks the booking deleted and changes nothing else, and from
\* then on every slot that only this booking would keep out is returned by
\* the pipeline; and a cancel or reschedule request for a soft-deleted
\* booking ends in not-found.
C28_BookingBlocksWhileNotDeleted ==
    /\ [](/\ \A b \in ActiveBookings :
                b.organizerId \in DOMAIN organizerSettings =>
                    ~isSlotAvailable(calculateAvailableSlots(b.organizerId),
                                     b.startTime, b.endTime)
          /\ \A r \in CancelRequests :
                (r.bookingId \in 1..Len(bookings) /\ bookings[r.bookingId].deleted)
                    => CancelValidate(r) = "booking_notfound"
          /\ \A r \in RescheduleRequests :
                (r.bookingId \in 1..Len(bookings) /\ bookings[r.bookingId].deleted)
                    => RescheduleValidate(r) = "booking_notfound"
          /\ \A id \in 1..Len(bookings) :
                (/\ bookings[id].deleted
                 /\ bookings[id].organizerId \in DOMAIN organizerSettings) =>
                    LET o == bookings[id].organizerId
                    IN  \A c \in Range(CandidateSlotsOf(o)) :
                            BlockedOnlyBy(c, o, id) =>
                                ReturnedSlot(c) \in Range(calculateAvailableSlots(o)))
    /\ [][\A a \in Attempts :
            (pc[a] = "delete" /\ pc'[a] = "done") =>
                /\ result'[a] = "success"
                /\ bookings' = [bookings EXCEPT ![req[a].bookingId].deleted = TRUE]
                /\ now' = now
                /\ Tables' = Tables
       ]_vars

\* a booking was cancelled, its slot has been committed again by a create, and
\* another request for the cancelled booking ended in not-found
C28_Witness ==
    \E a, b \in Attempts :
        /\ req[a].kind = "create" /\ pc[a] = "release" /\ result[a] = "success"
        /\ pc[b] = "done" /\ result[b] = "booking_notfound"
        /\ Len(bookings) = 2
        /\ bookings[1].deleted /\ ~bookings[2].deleted
        /\ bookings[2].startTime = bookings[1].startTime
        /\ bookings[2].endTime = bookings[1].endTime
        /\ bookings[2].startTime = req[a].startTime
        /\ \E c \in Range(CandidateSlotsOf("o1")) :
              /\ c.startTimeUTC = bookings[1].startTime
              /\ BlockedOnlyBy(c, "o1", 2)

\* C29: a createBooking attempt meets no spurious conflict.  When its lock key
\* is not set, the acquisition succeeds and the attempt goes on under its own
\* lock; when the pipeline lists the requested slot at the revalidation, the
\* attempt goes on to the write unless a query failed; the write either fails
\* and changes nothing or adds exactly one booking, non-deleted, with the
\* organizer, start and end of the request, and the attempt ends in success.
C29_NoSpuriousConflict ==
    [][\A a \in Attempts :
        req[a].kind = "create" =>
            /\ (pc[a] = "acquire" /\ pc'[a] # "acquire" /\ ~KeyIsSet(LockKey(a))) =>
                  /\ pc'[a] = "revalidate"
                  /\ \E l \in locks' : l.key = LockKey(a) /\ l.owner = a
            /\ (pc[a] = "revalidate" /\ pc'[a] # "revalidate" /\ HasExactSlot(a)) =>
                  \/ pc'[a] = "persist" /\ result'[a] = result[a]
                  \/ pc'[a] = "release" /\ result'[a] = "error"
            /\ (pc[a] = "persist" /\ pc'[a] # "persist") =>
                  /\ pc'[a] = "release"
                  /\ \/ result'[a] = "failed" /\ bookings' = bookings
                     \/ /\ result'[a] = "success"
                        /\ bookings' = Append(bookings,
                              [id |-> Len(bookings) + 1,
                               organizerId |-> OrganizerIdOf(req[a]),
                               attendantEmail |-> req[a].attendantEmail,
                               startTime |-> req[a].startTime,
                               endTime |-> req[a].endTime,
                               deleted |-> FALSE])
            /\ (pc[a] = "release" /\ pc'[a] # "release") =>
                  /\ pc'[a] = "done"
                  /\ result'[a] = result[a]
                  /\ bookings' = bookings
      ]_vars

\* one create has run alone, from a store with no lock key and no booking, to
\* its success
C29_Witness ==
    \E a, b \in Attempts :
        /\ a # b /\ pc[b] = "idle"
        /\ req[a].kind = "create" /\ pc[a] = "release" /\ result[a] = "success"
        /\ HoldsLock(a) /\ Cardinality(locks) = 1
        /\ Len(bookings) = 1
        /\ bookings[1].startTime = req[a].startTime
        /\ bookings[1].endTime = req[a].endTime
        /\ ~bookings[1].deleted

\* C30: rescheduleBooking rejects a booking whose current start is before now
\* ("Cannot reschedule past bookings") and a new start before now ("Cannot
\* reschedule to a past time"; a new range that is not start < end is rejected
\* as invalid first).  The rejection comes before any lock key is set and
\* changes no booking, and no reschedule reaches the lock with either start in
\* the past.
C30_ReschedulePastRejectedBeforeLock ==
    /\ [](\A r \in RescheduleRequests :
            LET existingBooking == getBookingById(r.bookingId)
            IN  existingBooking # NullBooking =>
                    /\ existingBooking.startTime < now
                          => RescheduleValidate(r) = "past"
                    /\ (existingBooking.startTime >= now /\ r.startTime < now)
                          => RescheduleValidate(r) =
                                IF r.startTime < r.endTime THEN "past"
                                                           ELSE "validation")
    /\ [][\A a \in Attempts :
            /\ (/\ pc[a] \in {"idle", "done"} /\ pc'[a] = "done"
                /\ result'[a] = "past"
                /\ (pc[a] = "idle" \/ result[a] # "past")) =>
                  /\ locks' = locks
                  /\ bookings' = bookings
            /\ (/\ pc[a] \in {"idle", "done"} /\ pc'[a] = "acquire"
                /\ req'[a].kind = "reschedule") =>
                  /\ bookings[req'[a].bookingId].startTime >= now
                  /\ req'[a].startTime >= now
                  /\ locks' = locks
                  /\ bookings' = bookings
       ]_vars

\* both rejections have happened: of a booking that has started, and of a new
\* start before now for a booking that has not
C30_Witness ==
    /\ \E a \in Attempts : pc[a] = "done" /\ result[a] = "past"
    /\ \E r1, r2 \in RescheduleRequests :
          /\ getBookingById(r1.bookingId) # NullBooking
          /\ getBookingById(r1.bookingId).startTime < now
          /\ r1.startTime >= now
          /\ RescheduleValidate(r1) = "past"
          /\ getBookingById(r2.bookingId) # NullBooking
          /\ getBookingById(r2.bookingId).startTime >= now
          /\ r2.startTime < now /\ r2.startTime < r2.endTime
          /\ RescheduleValidate(r2) = "past"

====
